---- MODULE Spec2Model ----
(***************************************************************************)
(* The appointment scheduling engine of the booking platform:              *)
(* booking-service/main.py (create_public_booking) and                     *)
(* booking-service/services/booking_service.py (BookingService).           *)
(*                                                                         *)
(* Time is counted in minutes from Monday 00:00, so that a datetime dt has *)
(* weekday (dt \div Day) % 7 (Python: Monday = 0) and time of day dt % Day.*)
(***************************************************************************)
EXTENDS Integers, FiniteSets, Sequences, TLC

\* Number of concurrent POST /public/booking requests.
NumCalls == 2

Calls == 1..NumCalls

\* settings.RATE_LIMIT_PER_MINUTE is 100; the model runs the middleware with
\* a small limit and a few more requests than the limit.
RATE_LIMIT_PER_MINUTE == 2

NumGatewayRequests == 4

GatewayRequests == 1..NumGatewayRequests

NoCount == [pc |-> "start", current_count |-> 0]

---------------------------------------------------------------------------
\* datetime arithmetic

Day == 24 * 60

HM(h, m) == h * 60 + m

At(d, h, m) == d * Day + HM(h, m)

\* datetime.weekday()
weekday(dt) == (dt \div Day) % 7

\* datetime.time(): the time-of-day component, the date is dropped
time(dt) == dt % Day

---------------------------------------------------------------------------
\* shared/models/models.py

BookingStatus == {"PENDING", "CONFIRMED", "CANCELLED", "COMPLETED", "NO_SHOW"}

\* Rows of the tables the handler only reads.  No code of the repository
\* writes them: they are the database the service is started against.
Tenants ==
    { [id |-> 1, subdomain |-> "salon",  status |-> "ACTIVE"],
      [id |-> 2, subdomain |-> "closed", status |-> "SUSPENDED"] }

Services ==
    { [id |-> 1, tenant_id |-> 1, duration_minutes |-> 30],
      [id |-> 2, tenant_id |-> 1, duration_minutes |-> 60],
      [id |-> 3, tenant_id |-> 1, duration_minutes |-> 0],
      [id |-> 4, tenant_id |-> 1, duration_minutes |-> 0 - 30] }

MasterServices ==
    { [master_id |-> 1, service_id |-> 1], [master_id |-> 1, service_id |-> 2],
      [master_id |-> 1, service_id |-> 3], [master_id |-> 1, service_id |-> 4],
      [master_id |-> 2, service_id |-> 1], [master_id |-> 2, service_id |-> 2] }

Masters ==
    { [id |-> 1, tenant_id |-> 1], [id |-> 2, tenant_id |-> 1] }

\* Master 1 works Monday 09:00-17:00 and has a Tuesday row with is_working
\* false; master 2 works Monday 09:00-17:00, has no Tuesday row, and works
\* a night shift Wednesday 20:00-23:59 and Thursday 00:00-02:00.
MasterSchedules ==
    { [master_id |-> 1, day_of_week |-> 0, start_time |-> HM(9, 0),
       end_time |-> HM(17, 0), is_working |-> TRUE],
      [master_id |-> 1, day_of_week |-> 1, start_time |-> HM(9, 0),
       end_time |-> HM(17, 0), is_working |-> FALSE],
      [master_id |-> 2, day_of_week |-> 0, start_time |-> HM(9, 0),
       end_time |-> HM(17, 0), is_working |-> TRUE],
      [master_id |-> 2, day_of_week |-> 2, start_time |-> HM(20, 0),
       end_time |-> HM(23, 59), is_working |-> TRUE],
      [master_id |-> 2, day_of_week |-> 3, start_time |-> HM(0, 0),
       end_time |-> HM(2, 0), is_working |-> TRUE] }

\* The class attribute Booking.duration_minutes: a mapped column, not a number.
Booking_duration_minutes == [column |-> "bookings.duration_minutes"]

---------------------------------------------------------------------------
\* booking-service/services/booking_service.py

\* datetime.timedelta(minutes=x): an int (or float) is accepted, any other
\* object raises TypeError ("unsupported type for timedelta minutes component").
timedelta(minutes) ==
    IF minutes \in [column : STRING]
    THEN [raised |-> TRUE, minutes |-> 0]
    ELSE [raised |-> FALSE, minutes |-> minutes]

\* The overlap query as it would run in the database with the booking's own
\* duration in place of the column object.
Overlapping_evaluated(rows, master_id, booking_datetime, booking_end) ==
    [raised |-> FALSE,
     rows |-> { b \in rows :
                  /\ b.master_id = master_id
                  /\ b.status \in {"PENDING", "CONFIRMED"}
                  /\ b.booking_date < booking_end
                  /\ b.booking_date + b.duration_minutes > booking_datetime }]

\* The overlap query evaluated without the filter on the master.
Overlapping_any_master(rows, master_id, booking_datetime, booking_end) ==
    [raised |-> FALSE,
     rows |-> { b \in rows :
                  /\ b.status \in {"PENDING", "CONFIRMED"}
                  /\ b.booking_date < booking_end
                  /\ b.booking_date + b.duration_minutes > booking_datetime }]

\* is_slot_available, lines 107-112: the filter arguments are Python
\* expressions evaluated before the query exists.  The fourth one calls
\* timedelta(minutes=Booking.duration_minutes) with the column object, which
\* raises, so the query is never built and no row is ever compared.
Overlapping(rows, master_id, booking_datetime, booking_end) ==
    IF timedelta(Booking_duration_minutes).raised
    THEN [raised |-> TRUE, rows |-> {}]
    ELSE [raised |-> FALSE,
          rows |-> { b \in rows :
                       /\ b.master_id = master_id
                       /\ b.status \in {"PENDING", "CONFIRMED"}
                       /\ b.booking_date < booking_end
                       /\ b.booking_date
                            + timedelta(Booking_duration_minutes).minutes
                            > booking_datetime }]

\* The schedule row of the weekday, working or not.
WorkingSchedule_any_row(master_id, day_of_week) ==
    { s \in MasterSchedules :
        /\ s.master_id = master_id
        /\ s.day_of_week = day_of_week }

\* The working schedule row of the weekday (is_working = True), or none.
WorkingSchedule(master_id, day_of_week) ==
    { s \in MasterSchedules :
        /\ s.master_id = master_id
        /\ s.day_of_week = day_of_week
        /\ s.is_working = TRUE }

\* BookingService.is_slot_available: "True", "False", or "TypeError" when the
\* call raises instead of returning.
is_slot_available(rows, master_id, booking_datetime, duration_minutes) ==
    LET booking_end == booking_datetime + duration_minutes
        overlapping == Overlapping(rows, master_id, booking_datetime, booking_end)
        schedule    == WorkingSchedule(master_id, weekday(booking_datetime))
        booking_time     == time(booking_datetime)
        booking_end_time == time(booking_datetime + duration_minutes)
    IN  IF overlapping.raised THEN "TypeError"
        ELSE IF overlapping.rows # {} THEN "False"
        ELSE IF schedule = {} THEN "False"
        ELSE IF \E s \in schedule :
                   booking_time < s.start_time \/ booking_end_time > s.end_time
             THEN "False"
        ELSE "True"

\* slot.strftime("%H:%M"), line 83: the date is dropped and the time of day
\* is split into hours and minutes.
strftime(dt) == <<time(dt) \div 60, time(dt) % 60>>

DefaultSlotDuration == 30

\* The loop with the last slot allowed to start, not end, before end_time.
RECURSIVE all_slots_strict(_, _, _)
all_slots_strict(current_time, end_time, slot_duration) ==
    IF current_time + slot_duration < end_time
    THEN <<current_time>>
           \o all_slots_strict(current_time + slot_duration, end_time,
                               slot_duration)
    ELSE <<>>

\* Lines 49-54: the loop that generates all possible slots.
RECURSIVE all_slots(_, _, _)
all_slots(current_time, end_time, slot_duration) ==
    IF current_time + slot_duration <= end_time
    THEN <<current_time>>
           \o all_slots(current_time + slot_duration, end_time, slot_duration)
    ELSE <<>>

\* Lines 60-65: the bookings of the master that start on the date and are
\* PENDING or CONFIRMED.
BookingsOfDay(rows, master_id, check_date) ==
    { b \in rows :
        /\ b.master_id = master_id
        /\ b.booking_date >= check_date * Day
        /\ b.booking_date <= check_date * Day + (Day - 1)
        /\ b.status \in {"PENDING", "CONFIRMED"} }

\* The overlap test on closed intervals.
SlotOverlaps_closed(slot, slot_end, b) ==
    LET booking_end == b.booking_date + b.duration_minutes
    IN  slot <= booking_end /\ slot_end >= b.booking_date

\* Lines 72-78: booking.duration_minutes is the number held by the fetched
\* row here, so the timedelta is built and added.
SlotOverlaps(slot, slot_end, b) ==
    LET booking_end == b.booking_date + b.duration_minutes
    IN  slot < booking_end /\ slot_end > b.booking_date

\* BookingService.get_available_slots, with check_date a day number counted
\* from the Monday of At.  slot_duration is positive: the loop of lines 52-54
\* does not end otherwise.
get_available_slots(rows, master_id, check_date, slot_duration) ==
    LET schedule == WorkingSchedule(master_id, weekday(check_date * Day))
    IN  IF schedule = {} THEN <<>>
        ELSE LET sch == CHOOSE x \in schedule : TRUE
                 start_time == check_date * Day + sch.start_time
                 end_time   == check_date * Day + sch.end_time
                 slots      == all_slots(start_time, end_time, slot_duration)
                 bookings   == BookingsOfDay(rows, master_id, check_date)
                 is_available(slot) ==
                     ~ \E b \in bookings :
                          SlotOverlaps(slot, slot + slot_duration, b)
                 available_slots == SelectSeq(slots, is_available)
             IN  [i \in 1 .. Len(available_slots) |->
                    strftime(available_slots[i])]

---------------------------------------------------------------------------
\* booking-service/main.py: POST /public/booking

BookingDates ==
    { At(0, 10, 0), At(0, 10, 15), At(0, 16, 45), At(0, 23, 30), At(1, 10, 0) }

\* CreateBookingRequest.  A field the handler never reads, because an earlier
\* lookup already failed, is fixed.
Requests ==
    [subdomain : {"closed"}, master_id : {1}, service_id : {1},
     booking_date : {At(0, 10, 0)}]
    \cup
    [subdomain : {"salon"}, master_id : {1}, service_id : {9},
     booking_date : {At(0, 10, 0)}]
    \cup
    [subdomain : {"salon"}, master_id : {3}, service_id : {1},
     booking_date : {At(0, 10, 0)}]
    \cup
    [subdomain : {"salon"}, master_id : {1, 2}, service_id : {1, 2, 3, 4},
     booking_date : BookingDates]

NoRequest == [subdomain |-> "", master_id |-> 0, service_id |-> 0, booking_date |-> 0]

NoResponse == [code |-> 0, detail |-> ""]

VARIABLES
    ledger,     \* the bookings table: committed rows
    clients,    \* the clients table: committed phones
    pc,         \* pc[c]: where request c stands in create_public_booking
    req,        \* req[c]: the request body (data)
    chk,        \* chk[c]: what is_slot_available did for request c
    booking,    \* booking[c]: id of the row request c committed, 0 if none
    res,        \* res[c]: the HTTP response of request c
    cancelled,  \* the latest response of DELETE /booking/{booking_id}
    listing,    \* the latest response of the availability listing
    abandoned,  \* the requests whose caller went away before the response
    counter,    \* api-gateway: the value under the rate limit key, 0 if absent
    rl          \* api-gateway: rl[r], where request r stands in the middleware

vars == <<ledger, clients, pc, req, chk, booking, res, cancelled, listing,
          abandoned, counter, rl>>

ServiceOf(r) == CHOOSE s \in Services : s.id = r.service_id

\* The row built at lines 266-276.
NewBooking(id, r, phone) ==
    [id |-> id, master_id |-> r.master_id, booking_date |-> r.booking_date,
     duration_minutes |-> ServiceOf(r).duration_minutes,
     status |-> "CONFIRMED", client |-> phone]

NextId(rows) == IF rows = {} THEN 1
                ELSE 1 + (CHOOSE i \in {b.id : b \in rows} :
                            \A j \in {b.id : b \in rows} : j <= i)

\* A response that is recorded and never sent.
Respond_never_returns(c, code, detail) ==
    /\ res' = [res EXCEPT ![c] = [code |-> code, detail |-> detail]]
    /\ UNCHANGED pc

Respond(c, code, detail) ==
    /\ res' = [res EXCEPT ![c] = [code |-> code, detail |-> detail]]
    /\ pc' = [pc EXCEPT ![c] = "done"]

\* The result of the check is ignored and the try block always entered.
AfterCheck_proceeds(avail) == "try"

\* The branch taken on the result of is_slot_available (lines 258-264).
AfterCheck(avail) ==
    IF avail = "TypeError" THEN "raise"
    ELSE IF avail = "False" THEN "conflict"
    ELSE "try"

\* One step of request c.  The handler is a coroutine that does not await
\* between line 214 and line 279, so requests served by one process run these
\* lines one after the other; requests served by different processes of the
\* service meet only in the database and interleave at its statements.  The
\* steps are those statements: the lookups, the check, the commit, the
\* refresh, the notification.  A client row added at lines 225-230 is pending
\* in the session and becomes visible with the commit of line 278.
\* Since the check raises on every call, only the first two steps are ever
\* taken (TryBlockNeverEntered below).
create_public_booking(c) ==
  /\ UNCHANGED <<cancelled, listing, abandoned, counter, rl>>
  /\
    CASE pc[c] = "idle" ->
           \* lines 214-254: tenant, client, service and master_service lookups
           \E r \in Requests :
              LET tenant == { t \in Tenants : t.subdomain = r.subdomain }
                  service == { s \in Services :
                                 /\ s.id = r.service_id
                                 /\ \E t \in tenant : s.tenant_id = t.id }
                  master_service == { ms \in MasterServices :
                                        /\ ms.master_id = r.master_id
                                        /\ ms.service_id = r.service_id }
              IN  /\ req' = [req EXCEPT ![c] = r]
                  /\ IF \/ tenant = {}
                        \/ \E t \in tenant : t.status \notin {"ACTIVE", "TRIAL"}
                     THEN Respond(c, 404, "Business not found or inactive")
                     ELSE IF service = {}
                     THEN Respond(c, 404, "Service not found")
                     ELSE IF master_service = {}
                     THEN Respond(c, 400, "Master does not provide this service")
                     ELSE pc' = [pc EXCEPT ![c] = "check"] /\ UNCHANGED res
                  /\ UNCHANGED <<ledger, clients, chk, booking>>
      [] pc[c] = "check" ->
           \* lines 256-262: the availability check, outside the try block
           LET avail == is_slot_available(ledger, req[c].master_id,
                                          req[c].booking_date,
                                          ServiceOf(req[c]).duration_minutes)
               branch == AfterCheck(avail)
           IN  /\ chk' = [chk EXCEPT ![c] = avail]
               /\ IF branch = "raise"
                  THEN Respond(c, 500, "Internal Server Error")
                  ELSE IF branch = "conflict"
                  THEN Respond(c, 409, "Time slot not available")
                  ELSE pc' = [pc EXCEPT ![c] = "commit"] /\ UNCHANGED res
               /\ UNCHANGED <<ledger, clients, req, booking>>
      [] pc[c] = "commit" ->
           \* lines 264-278: db.add, db.commit; a storage failure is caught at
           \* line 310 and rolled back
           \E ok \in BOOLEAN :
              IF ok
              THEN LET id == NextId(ledger)
                   IN  /\ ledger' = ledger \cup {NewBooking(id, req[c], c)}
                       /\ clients' = clients \cup {c}
                       /\ booking' = [booking EXCEPT ![c] = id]
                       /\ pc' = [pc EXCEPT ![c] = "refresh"]
                       /\ UNCHANGED <<req, chk, res>>
              ELSE /\ Respond(c, 500, "Booking creation failed")
                   /\ UNCHANGED <<ledger, clients, req, chk, booking>>
      [] pc[c] = "refresh" ->
           \* line 279: db.refresh after the commit; a failure is caught at
           \* line 310, where db.rollback() no longer undoes the commit
           \E ok \in BOOLEAN :
              /\ IF ok
                 THEN pc' = [pc EXCEPT ![c] = "notify"] /\ UNCHANGED res
                 ELSE Respond(c, 500, "Booking creation failed")
              /\ UNCHANGED <<ledger, clients, req, chk, booking>>
      [] pc[c] = "notify" ->
           \* lines 283-308: the awaited WhatsApp post, whose failure is
           \* logged and swallowed, then the 201 response
           /\ Respond(c, 201, "Booking created successfully")
           /\ UNCHANGED <<ledger, clients, req, chk, booking>>
      [] OTHER -> FALSE

---------------------------------------------------------------------------
\* booking-service/main.py: DELETE /booking/{booking_id}

CancelIds == {1, 2, 3, 4, 99}

NoCancel == [booking_id |-> 0, code |-> 0, detail |-> ""]

\* A cancellation that reopens a booking that is already cancelled.
cancel_booking_toggling ==
    \E booking_id \in CancelIds :
       /\ \E b \in ledger : b.id = booking_id
       /\ ledger' =
            { IF b.id = booking_id
              THEN [b EXCEPT !.status = IF b.status = "CANCELLED"
                                        THEN "CONFIRMED" ELSE "CANCELLED"]
              ELSE b : b \in ledger }
       /\ cancelled' = [booking_id |-> booking_id, code |-> 200,
                        detail |-> "Booking cancelled successfully"]
       /\ UNCHANGED <<clients, pc, req, chk, booking, res, listing,
                      abandoned, counter, rl>>

\* The whole handler: it does not await before the WhatsApp post, which comes
\* after the commit and whose failure is swallowed.  user_id and role are
\* accepted and never read.  A failing commit leaves the row as it was and
\* the exception unhandled.
cancel_booking ==
    \E booking_id \in CancelIds :
       LET found == { b \in ledger : b.id = booking_id }
       IN  /\ IF found = {}
              THEN /\ cancelled' = [booking_id |-> booking_id, code |-> 404,
                                    detail |-> "Booking not found"]
                   /\ UNCHANGED ledger
              ELSE \E ok \in BOOLEAN :
                      IF ok
                      THEN /\ ledger' =
                                { IF b.id = booking_id
                                  THEN [b EXCEPT !.status = "CANCELLED"]
                                  ELSE b : b \in ledger }
                           /\ cancelled' =
                                [booking_id |-> booking_id, code |-> 200,
                                 detail |-> "Booking cancelled successfully"]
                      ELSE /\ cancelled' =
                                [booking_id |-> booking_id, code |-> 500,
                                 detail |-> "Internal Server Error"]
                           /\ UNCHANGED ledger
           /\ UNCHANGED <<clients, pc, req, chk, booking, res, listing,
                          abandoned, counter, rl>>

---------------------------------------------------------------------------
\* booking-service/main.py: GET /public/business/{subdomain}/availability

CheckDates == {0, 1, 3}

AvailabilityRequests ==
    [subdomain : {"nosuch", "closed"}, master_id : {1}, date : {0}]
    \cup
    [subdomain : {"salon"}, master_id : {3}, date : {0}]
    \cup
    [subdomain : {"salon"}, master_id : {1, 2}, date : CheckDates]

NoListing ==
    [code |-> 0, detail |-> "", master_id |-> 0, date |-> 0,
     slot_duration |-> 0, slots |-> <<>>]

\* A listing that also expires the PENDING bookings of the master.
check_availability_expiring ==
    \E q \in AvailabilityRequests :
       /\ listing' =
            [code |-> 200, detail |-> "", master_id |-> q.master_id,
             date |-> q.date, slot_duration |-> DefaultSlotDuration,
             slots |-> get_available_slots(ledger, q.master_id, q.date,
                                           DefaultSlotDuration)]
       /\ ledger' =
            { IF b.master_id = q.master_id /\ b.status = "PENDING"
              THEN [b EXCEPT !.status = "CANCELLED"]
              ELSE b : b \in ledger }
       /\ UNCHANGED <<clients, pc, req, chk, booking, res, cancelled,
                      abandoned, counter, rl>>

\* The whole handler: two lookups and the listing, all reads.  The tenant is
\* looked up by subdomain alone, whatever its status.
check_availability ==
    \E q \in AvailabilityRequests :
       LET tenant == { t \in Tenants : t.subdomain = q.subdomain }
           master == { m \in Masters :
                         /\ m.id = q.master_id
                         /\ \E t \in tenant : m.tenant_id = t.id }
       IN  /\ listing' =
                IF tenant = {}
                THEN [NoListing EXCEPT !.code = 404,
                                       !.detail = "Business not found"]
                ELSE IF master = {}
                THEN [NoListing EXCEPT !.code = 404,
                                       !.detail = "Master not found"]
                ELSE [code |-> 200, detail |-> "", master_id |-> q.master_id,
                      date |-> q.date, slot_duration |-> DefaultSlotDuration,
                      slots |-> get_available_slots(ledger, q.master_id,
                                                    q.date,
                                                    DefaultSlotDuration)]
           /\ UNCHANGED <<ledger, clients, pc, req, chk, booking, res,
                          cancelled, abandoned, counter, rl>>

---------------------------------------------------------------------------
\* BookingService.get_available_slots applied to a table of bookings

SlotDurations == {30, 45, 60, 480, 500}

\* Rows for the listing: the first slot of master 2, a booking on the grid,
\* one off the grid, a cancelled one, a completed one, and a booking of the
\* night shift that starts on Wednesday and ends on Thursday.
SlotBookings ==
    { [id |-> 1, master_id |-> 1, booking_date |-> At(0, 10, 0),
       duration_minutes |-> 30, status |-> "CONFIRMED", client |-> 0],
      [id |-> 2, master_id |-> 1, booking_date |-> At(0, 11, 15),
       duration_minutes |-> 30, status |-> "PENDING", client |-> 0],
      [id |-> 3, master_id |-> 1, booking_date |-> At(0, 14, 0),
       duration_minutes |-> 60, status |-> "CANCELLED", client |-> 0],
      [id |-> 4, master_id |-> 1, booking_date |-> At(0, 15, 0),
       duration_minutes |-> 30, status |-> "COMPLETED", client |-> 0],
      [id |-> 5, master_id |-> 2, booking_date |-> At(0, 9, 0),
       duration_minutes |-> 30, status |-> "CONFIRMED", client |-> 0],
      [id |-> 6, master_id |-> 2, booking_date |-> At(2, 23, 30),
       duration_minutes |-> 60, status |-> "CONFIRMED", client |-> 0] }

ApplyGetAvailableSlots ==
    \E master_id \in {1, 2}, check_date \in CheckDates,
       slot_duration \in SlotDurations :
       /\ listing' =
            [code |-> 200, detail |-> "", master_id |-> master_id,
             date |-> check_date, slot_duration |-> slot_duration,
             slots |-> get_available_slots(ledger, master_id, check_date,
                                           slot_duration)]
       /\ UNCHANGED <<ledger, clients, pc, req, chk, booking, res, cancelled,
                      abandoned, counter, rl>>

---------------------------------------------------------------------------
\* booking-service/main.py: the caller of POST /public/booking goes away

\* The caller (the gateway's proxy call, or the client behind it) drops the
\* connection while request c is being served.  The handler has no code for
\* this: it does not look at the connection, and it does not await between
\* the lookups and the commit, so nothing stops it before the commit.
abandon(c) ==
    /\ pc[c] \notin {"idle", "done"}
    /\ c \notin abandoned
    /\ abandoned' = abandoned \cup {c}
    /\ UNCHANGED <<ledger, clients, pc, req, chk, booking, res, cancelled,
                   listing, counter, rl>>

---------------------------------------------------------------------------
\* api-gateway/middleware/rate_limit.py

\* The two Redis calls of one request, lines 34 and 38/50, are separate
\* commands: requests served by different gateway processes interleave
\* between them.  One client IP and one minute are modelled, hence one key.
\* Redis is taken to answer every command.
rate_limit_get(r) ==
    /\ rl[r].pc = "start"
    /\ rl' = [rl EXCEPT ![r] = [pc |-> "read", current_count |-> counter]]
    /\ UNCHANGED <<ledger, clients, pc, req, chk, booking, res, cancelled,
                   listing, abandoned, counter>>

\* Lines 36-57: current_count None (no key) sets the key to 1; a count at the
\* limit answers 429; otherwise INCR; then call_next.
rate_limit_update(r) ==
    /\ rl[r].pc = "read"
    /\ IF rl[r].current_count = 0
       THEN /\ counter' = 1
            /\ rl' = [rl EXCEPT ![r].pc = "forwarded"]
       ELSE IF rl[r].current_count >= RATE_LIMIT_PER_MINUTE
       THEN /\ rl' = [rl EXCEPT ![r].pc = "429"]
            /\ UNCHANGED counter
       ELSE /\ counter' = counter + 1
            /\ rl' = [rl EXCEPT ![r].pc = "forwarded"]
    /\ UNCHANGED <<ledger, clients, pc, req, chk, booking, res, cancelled,
                   listing, abandoned>>

---------------------------------------------------------------------------
\* Specifications

Init ==
    /\ ledger = {}
    /\ clients = {}
    /\ pc = [c \in Calls |-> "idle"]
    /\ req = [c \in Calls |-> NoRequest]
    /\ chk = [c \in Calls |-> "none"]
    /\ booking = [c \in Calls |-> 0]
    /\ res = [c \in Calls |-> NoResponse]
    /\ cancelled = NoCancel
    /\ listing = NoListing
    /\ abandoned = {}
    /\ counter = 0
    /\ rl = [r \in GatewayRequests |-> NoCount]

Next == \E c \in Calls : create_public_booking(c)

Spec == Init /\ [][Next]_vars

\* The server runs every request it has accepted: no step of a request waits
\* for another request, each database statement returns or raises, and the
\* WhatsApp post is bounded by timeout=5.0 (line 298).
SpecFair ==
    Init /\ [][Next]_vars /\ \A c \in Calls : WF_vars(create_public_booking(c))

\* Bookings already in the table when the service starts: the table is
\* persistent and outlives the process.
ExistingBookings ==
    { [id |-> 1, master_id |-> 1, booking_date |-> At(0, 10, 0),
       duration_minutes |-> 60, status |-> "CONFIRMED", client |-> 0],
      [id |-> 2, master_id |-> 2, booking_date |-> At(0, 10, 0),
       duration_minutes |-> 30, status |-> "PENDING", client |-> 0],
      [id |-> 3, master_id |-> 1, booking_date |-> At(0, 16, 0),
       duration_minutes |-> 30, status |-> "CANCELLED", client |-> 0],
      [id |-> 4, master_id |-> 2, booking_date |-> At(0, 11, 0),
       duration_minutes |-> 30, status |-> "COMPLETED", client |-> 0] }

InitLedger ==
    /\ ledger \in SUBSET ExistingBookings
    /\ clients = {}
    /\ pc = [c \in Calls |-> "idle"]
    /\ req = [c \in Calls |-> NoRequest]
    /\ chk = [c \in Calls |-> "none"]
    /\ booking = [c \in Calls |-> 0]
    /\ res = [c \in Calls |-> NoResponse]
    /\ cancelled = NoCancel
    /\ listing = NoListing
    /\ abandoned = {}
    /\ counter = 0
    /\ rl = [r \in GatewayRequests |-> NoCount]

\* The service started against a database that already holds bookings.
SpecLedger == InitLedger /\ [][Next]_vars

\* The three handlers of the service against a table that holds a booking
\* of every kind: one booking request, and any number of cancellations and
\* listings before, during and after it.
InitService ==
    /\ ledger = ExistingBookings
    /\ clients = {}
    /\ pc = [c \in Calls |-> "idle"]
    /\ req = [c \in Calls |-> NoRequest]
    /\ chk = [c \in Calls |-> "none"]
    /\ booking = [c \in Calls |-> 0]
    /\ res = [c \in Calls |-> NoResponse]
    /\ cancelled = NoCancel
    /\ listing = NoListing
    /\ abandoned = {}
    /\ counter = 0
    /\ rl = [r \in GatewayRequests |-> NoCount]

NextService ==
    \/ create_public_booking(1)
    \/ cancel_booking
    \/ check_availability

SpecService == InitService /\ [][NextService]_vars

\* The listing called before, during and after one booking request.
NextListing ==
    \/ create_public_booking(1)
    \/ check_availability

SpecListing == InitService /\ [][NextListing]_vars

\* The listing function over every table of SlotBookings.
InitSlots ==
    /\ ledger \in SUBSET SlotBookings
    /\ clients = {}
    /\ pc = [c \in Calls |-> "idle"]
    /\ req = [c \in Calls |-> NoRequest]
    /\ chk = [c \in Calls |-> "none"]
    /\ booking = [c \in Calls |-> 0]
    /\ res = [c \in Calls |-> NoResponse]
    /\ cancelled = NoCancel
    /\ listing = NoListing
    /\ abandoned = {}
    /\ counter = 0
    /\ rl = [r \in GatewayRequests |-> NoCount]

SpecSlots == InitSlots /\ [][ApplyGetAvailableSlots]_vars

\* A table with two bookings of master 1 that leave exactly Monday
\* 10:00-10:30 free between them.
BoundaryBookings ==
    { [id |-> 1, master_id |-> 1, booking_date |-> At(0, 9, 30),
       duration_minutes |-> 30, status |-> "CONFIRMED", client |-> 0],
      [id |-> 2, master_id |-> 1, booking_date |-> At(0, 10, 30),
       duration_minutes |-> 30, status |-> "PENDING", client |-> 0] }

InitBoundary ==
    /\ ledger = BoundaryBookings
    /\ clients = {}
    /\ pc = [c \in Calls |-> "idle"]
    /\ req = [c \in Calls |-> NoRequest]
    /\ chk = [c \in Calls |-> "none"]
    /\ booking = [c \in Calls |-> 0]
    /\ res = [c \in Calls |-> NoResponse]
    /\ cancelled = NoCancel
    /\ listing = NoListing
    /\ abandoned = {}
    /\ counter = 0
    /\ rl = [r \in GatewayRequests |-> NoCount]

\* The listing and one booking request over that table.
SpecBoundary == InitBoundary /\ [][NextListing]_vars

\* Booking requests whose callers may go away while they are served.
NextAbandon ==
    \/ \E c \in Calls : create_public_booking(c)
    \/ \E c \in Calls : abandon(c)

SpecAbandon == Init /\ [][NextAbandon]_vars

\* The gateway's rate limit middleware serving requests of one client IP in
\* one minute.
NextRateLimit ==
    \/ \E r \in GatewayRequests : rate_limit_get(r)
    \/ \E r \in GatewayRequests : rate_limit_update(r)

SpecRateLimit == Init /\ [][NextRateLimit]_vars

---------------------------------------------------------------------------
\* Vocabulary of the properties

Active(b) == b.status \in {"PENDING", "CONFIRMED"}

BookingEnd(b) == b.booking_date + b.duration_minutes

\* Half-open overlap of [s1, e1) and [s2, e2).
Overlaps(s1, e1, s2, e2) == s1 < e2 /\ s2 < e1

ReqStart(c) == req[c].booking_date

ReqDuration(c) == ServiceOf(req[c]).duration_minutes

ReqEnd(c) == ReqStart(c) + ReqDuration(c)

\* Request c passed the lookups and its availability check has run.
Checked(c) == chk[c] # "none"

Finished(c) == pc[c] = "done"

\* The row request c committed, if any.
CreatedBy(c) == { b \in ledger : booking[c] # 0 /\ b.id = booking[c] }

\* [start, end) lies inside the working hours of the master on the weekday of
\* start, on the calendar day of start.
InsideWorkingHours(master_id, start, end) ==
    \E s \in MasterSchedules :
        /\ s.master_id = master_id
        /\ s.day_of_week = weekday(start)
        /\ s.is_working
        /\ (start \div Day) * Day + s.start_time <= start
        /\ end <= (start \div Day) * Day + s.end_time

ValidationCodes == {400, 422}

---------------------------------------------------------------------------
C2_ExactlyOneWins ==
    \A c \in Calls : \A d \in Calls :
        ( /\ c # d /\ Finished(c) /\ Finished(d) /\ Checked(c) /\ Checked(d)
          /\ req[c].master_id = req[d].master_id
          /\ ReqStart(c) = ReqStart(d)
          /\ ReqDuration(c) = 30 /\ ReqDuration(d) = 30
          /\ InsideWorkingHours(req[c].master_id, ReqStart(c), ReqEnd(c))
          /\ \A b \in ledger \ (CreatedBy(c) \cup CreatedBy(d)) :
                ~(/\ b.master_id = req[c].master_id /\ Active(b)
                  /\ Overlaps(b.booking_date, BookingEnd(b), ReqStart(c), ReqEnd(c))) )
        => /\ {res[c].code, res[d].code} = {201, 409}
           /\ Cardinality({ b \in ledger :
                              /\ b.master_id = req[c].master_id
                              /\ b.booking_date = ReqStart(c) }) = 1

C4_OverlapReturnsConflict ==
    [][\A c \in Calls :
        ( /\ pc[c] = "check" /\ pc'[c] # "check"
          /\ \E b \in ledger :
                /\ b.master_id = req[c].master_id /\ Active(b)
                /\ Overlaps(b.booking_date, BookingEnd(b), ReqStart(c), ReqEnd(c)) )
        => /\ pc'[c] = "done" /\ res'[c].code = 409
           /\ booking'[c] = 0 /\ ledger' = ledger]_vars

\* C5: a request for an interval outside working hours returns the Validation
\* outcome, not Conflict and not success, whatever the ledger holds.
C5_OutsideHoursIsValidation ==
    \A c \in Calls :
        ( /\ Finished(c) /\ Checked(c) /\ ReqDuration(c) > 0
          /\ ~InsideWorkingHours(req[c].master_id, ReqStart(c), ReqEnd(c)) )
        => res[c].code \in ValidationCodes

\* C6: the check rejects (returns False for) a request when the master has no
\* working row for the weekday, when is_working is false, when the interval is
\* not contained in the working hours, and whenever the interval crosses
\* midnight.
C6_CheckRejectsOutsideHours ==
    \A c \in Calls :
        ( /\ Checked(c) /\ ReqDuration(c) > 0
          /\ \/ WorkingSchedule(req[c].master_id, weekday(ReqStart(c))) = {}
             \/ ~InsideWorkingHours(req[c].master_id, ReqStart(c), ReqEnd(c))
             \/ ReqEnd(c) \div Day # ReqStart(c) \div Day )
        => chk[c] = "False"

\* C7: a request whose duration_minutes is zero or negative returns
\* InvalidDuration and writes no row.
C7_NonPositiveDurationRejected ==
    \A c \in Calls :
        (Finished(c) /\ Checked(c) /\ ReqDuration(c) <= 0)
            => res[c].code \in ValidationCodes /\ booking[c] = 0

C9_NoErrorWithCommittedRow ==
    \A c \in Calls :
        (Finished(c) /\ res[c].code # 201) => CreatedBy(c) = {}

\* C10: every booking a request adds to the ledger has status CONFIRMED when
\* it is committed.  No request ever adds one.
C10_CreatedConfirmed ==
    [][\A b \in ledger' \ ledger : b.status = "CONFIRMED"]_vars

\* No request ever enters the try block of lines 264-316.
TryBlockNeverEntered ==
    \A c \in Calls : pc[c] \in {"idle", "check", "done"} /\ chk[c] # "True"

---------------------------------------------------------------------------
\* C11: status lifecycle: a booking whose status is CANCELLED, COMPLETED or
\* NO_SHOW never changes status again, and the only status changes that occur
\* are CONFIRMED to CANCELLED, CONFIRMED to COMPLETED and CONFIRMED to
\* NO_SHOW.  cancel_booking writes CANCELLED over whatever status it finds.
C11_StatusLifecycle ==
    [][\A b \in ledger : \A a \in ledger' :
          (a.id = b.id /\ a.status # b.status)
             => /\ b.status = "CONFIRMED"
                /\ a.status \in {"CANCELLED", "COMPLETED", "NO_SHOW"}]_vars

\* C12: only PENDING and CONFIRMED bookings take part in conflict decisions.
\* A listing is the one the table gives without its other rows; and a booking
\* request with a positive duration inside working hours, whose only
\* overlapping bookings of the master are inactive ones, is not answered with
\* a conflict and passes the check.
C12_InactiveRowsDoNotConflict ==
    [][/\ (listing' # listing /\ listing'.code = 200)
            => listing'.slots =
                 get_available_slots({ b \in ledger : Active(b) },
                                     listing'.master_id, listing'.date,
                                     listing'.slot_duration)
       /\ \A c \in Calls :
            ( /\ pc[c] = "check"
              /\ pc'[c] # "check"
              /\ ReqDuration(c) > 0
              /\ InsideWorkingHours(req[c].master_id, ReqStart(c), ReqEnd(c))
              /\ \E b \in ledger :
                    /\ b.master_id = req[c].master_id
                    /\ ~ Active(b)
                    /\ Overlaps(ReqStart(c), ReqEnd(c),
                                b.booking_date, BookingEnd(b))
              /\ ~ \E b \in ledger :
                      /\ b.master_id = req[c].master_id
                      /\ Active(b)
                      /\ Overlaps(ReqStart(c), ReqEnd(c),
                                  b.booking_date, BookingEnd(b)) )
            => chk'[c] = "True" /\ pc'[c] = "commit"]_vars

\* C13: slot generator: with a working row (start_time, end_time) on the
\* weekday of the date, a positive slot duration g and no active booking of
\* the master starting on the date, the listing is exactly the times
\* start_time + k*g for k >= 0 with start_time + (k+1)*g <= end_time, in
\* increasing order; for 09:00-17:00 and g = 30 these are the 16 slots
\* 09:00, 09:30, ..., 16:30.
C13_SlotGenerator ==
    (listing.code = 200)
       => \A s \in MasterSchedules :
            ( /\ s.master_id = listing.master_id
              /\ s.day_of_week = listing.date % 7
              /\ s.is_working
              /\ ~ \E b \in ledger :
                      /\ b.master_id = listing.master_id
                      /\ Active(b)
                      /\ b.booking_date \div Day = listing.date )
            => LET g == listing.slot_duration
                   n == (s.end_time - s.start_time) \div g
               IN  /\ Len(listing.slots) = n
                   /\ \A k \in 0 .. n - 1 :
                        listing.slots[k + 1]
                          = << (s.start_time + k * g) \div 60,
                               (s.start_time + k * g) % 60 >>
                   /\ (s.start_time = HM(9, 0) /\ s.end_time = HM(17, 0)
                         /\ g = 30)
                        => /\ n = 16
                           /\ listing.slots[1] = <<9, 0>>
                           /\ listing.slots[2] = <<9, 30>>
                           /\ listing.slots[16] = <<16, 30>>

\* The Monday listing of master 1 with 30-minute slots and no booking.
C13_Witness ==
    /\ listing.code = 200
    /\ listing.master_id = 1
    /\ listing.date = 0
    /\ listing.slot_duration = 30
    /\ ~ \E b \in ledger : b.master_id = 1 /\ Active(b)
    /\ Len(listing.slots) = 16

\* C14: the listing is empty whenever the master has no schedule row for the
\* weekday of the requested date, or that row has is_working false, whatever
\* the table of bookings holds.
C14_NoWorkingRowNoSlots ==
    ( /\ listing.code = 200
      /\ \A s \in MasterSchedules :
            (s.master_id = listing.master_id
               /\ s.day_of_week = listing.date % 7)
            => ~ s.is_working )
    => listing.slots = <<>>

\* Tuesday listings of master 1 (row with is_working false) and of master 2
\* (no row) over a table that holds bookings.
C14_Witness ==
    /\ listing.code = 200
    /\ listing.date = 1
    /\ listing.slots = <<>>
    /\ ledger # {}

\* The candidate slots of schedule row s on day check_date, as datetimes.
Candidates(s, check_date, g) ==
    [k \in 1 .. ((s.end_time - s.start_time) \div g) |->
       check_date * Day + s.start_time + (k - 1) * g]

\* The candidates that no booking of rs overlaps, in their order.
Kept(cands, g, rs) ==
    LET free(x) == ~ \E r \in rs : x < BookingEnd(r) /\ x + g > r.booking_date
    IN  SelectSeq(cands, free)

HHMM(seq) == [i \in 1 .. Len(seq) |-> <<(seq[i] % Day) \div 60, seq[i] % 60>>]

\* The listing is the candidates of the working row without those that a
\* booking of rs overlaps.
ListingIsFilterOf(rs) ==
    \A s \in MasterSchedules :
        ( /\ s.master_id = listing.master_id
          /\ s.day_of_week = listing.date % 7
          /\ s.is_working )
        => listing.slots =
             HHMM(Kept(Candidates(s, listing.date, listing.slot_duration),
                       listing.slot_duration, rs))

\* The example: one CONFIRMED booking 10:00-10:30 on a 09:00-17:00 day and
\* 30-minute slots give the 16 slots without 10:00.
ListingExample ==
    ( /\ listing.master_id = 1
      /\ listing.date = 0
      /\ listing.slot_duration = 30
      /\ { b \in ledger : b.master_id = 1 /\ Active(b) }
           = { b \in SlotBookings : b.id = 1 } )
    => /\ Len(listing.slots) = 15
       /\ listing.slots[2] = <<9, 30>>
       /\ listing.slots[3] = <<10, 30>>
       /\ listing.slots[15] = <<16, 30>>

C17_ListingWritesNothing ==
    [][(listing' # listing)
          => /\ ledger' = ledger
             /\ clients' = clients
             /\ <<pc, req, chk, booking, res>>' = <<pc, req, chk, booking, res>>]_vars

\* A listing answered between the lookups and the check of a booking
\* request, over a table that holds bookings.
C17_Witness ==
    /\ listing.code = 200
    /\ listing.slots # <<>>
    /\ pc[1] = "check"
    /\ ledger = ExistingBookings

\* C18: the conflict check accepts any positive duration and any start time,
\* on the 30-minute grid or off it: a booking request whose interval lies
\* inside the working hours and overlaps no PENDING or CONFIRMED booking of
\* the master passes the check and goes on to commit.
C18_FreeIntervalAccepted ==
    [][\A c \in Calls :
          ( /\ pc[c] = "check"
            /\ pc'[c] # "check"
            /\ ReqDuration(c) > 0
            /\ InsideWorkingHours(req[c].master_id, ReqStart(c), ReqEnd(c))
            /\ ~ \E b \in ledger :
                    /\ b.master_id = req[c].master_id
                    /\ Active(b)
                    /\ Overlaps(ReqStart(c), ReqEnd(c),
                                b.booking_date, BookingEnd(b)) )
          => /\ chk'[c] = "True"
             /\ pc'[c] = "commit"
             /\ res'[c] = NoResponse]_vars

\* The response codes of request r served alone on the table rows: 500 when
\* the check raises, 409 when it refuses, and 201 or the 500 of a storage
\* failure when it accepts.
AloneCodes(r, rows) ==
    LET avail == is_slot_available(rows, r.master_id, r.booking_date,
                                   ServiceOf(r).duration_minutes)
    IN  CASE avail = "TypeError" -> {500}
          [] avail = "False" -> {409}
          [] OTHER -> {201, 500}

---------------------------------------------------------------------------
C24_UnknownMasterNotFound ==
    \A c \in Calls :
        ( /\ Finished(c)
          /\ \E t \in Tenants : /\ t.subdomain = req[c].subdomain
                                /\ t.status \in {"ACTIVE", "TRIAL"}
          /\ \E s \in Services : s.id = req[c].service_id
          /\ ~ \E m \in Masters : m.id = req[c].master_id )
        => /\ res[c].code = 404
           /\ res[c].code \notin ValidationCodes \cup {409}
           /\ CreatedBy(c) = {}

\* Every PENDING or CONFIRMED booking of the master ends at or before start,
\* or starts at or after end.
TouchesAtMost(rows, master_id, start, end) ==
    \A r \in rows :
        (r.master_id = master_id /\ Active(r))
           => (BookingEnd(r) <= start \/ end <= r.booking_date)

\* Some PENDING or CONFIRMED booking of the master ends exactly at start or
\* starts exactly at end.
TouchesSome(rows, master_id, start, end) ==
    \E r \in rows :
        /\ r.master_id = master_id
        /\ Active(r)
        /\ (BookingEnd(r) = start \/ end = r.booking_date)

\* C25: half-open boundaries: an active booking [a, b) does not conflict
\* with an interval that starts exactly at b or ends exactly at a.  A
\* candidate slot that active bookings touch only at its ends is listed, and
\* a booking request for such an interval is not answered with a conflict.
C25_HalfOpenBoundaries ==
    [][/\ (listing' # listing /\ listing'.code = 200)
            => \A s \in MasterSchedules :
                 ( /\ s.master_id = listing'.master_id
                   /\ s.day_of_week = listing'.date % 7
                   /\ s.is_working )
                 => LET g == listing'.slot_duration
                        cands == Candidates(s, listing'.date, g)
                    IN  \A k \in 1 .. Len(cands) :
                          ( /\ TouchesAtMost(ledger, s.master_id,
                                             cands[k], cands[k] + g)
                            /\ TouchesSome(ledger, s.master_id,
                                           cands[k], cands[k] + g) )
                          => \E i \in 1 .. Len(listing'.slots) :
                               listing'.slots[i] = HHMM(cands)[k]
       /\ \A c \in Calls :
            ( /\ pc[c] = "check"
              /\ pc'[c] # "check"
              /\ ReqDuration(c) > 0
              /\ TouchesAtMost(ledger, req[c].master_id,
                               ReqStart(c), ReqEnd(c))
              /\ TouchesSome(ledger, req[c].master_id,
                             ReqStart(c), ReqEnd(c)) )
            => res'[c].code # 409 /\ chk'[c] # "False"]_vars

\* Bookings 09:30-10:00 and 10:30-11:00 in the table: the 10:00 slot is
\* listed, and the request for Monday 10:00, 30 minutes, has been checked and
\* answered.
C25_Witness ==
    /\ ledger = BoundaryBookings
    /\ listing.code = 200
    /\ listing.master_id = 1
    /\ listing.date = 0
    /\ \E i \in 1 .. Len(listing.slots) : listing.slots[i] = <<10, 0>>
    /\ Finished(1)
    /\ Checked(1)
    /\ req[1].master_id = 1
    /\ ReqStart(1) = At(0, 10, 0)
    /\ ReqDuration(1) = 30
    /\ res[1].code # 409

\* C26: the listing and the check made when booking agree: for every table,
\* master, date and slot duration g, a candidate slot s of the day is in
\* get_available_slots(master, date, g) if and only if
\* is_slot_available(master, s, g) is true.
C26_ListingAgreesWithCheck ==
    (listing.code = 200)
       => \A s \in MasterSchedules :
            ( /\ s.master_id = listing.master_id
              /\ s.day_of_week = listing.date % 7
              /\ s.is_working )
            => LET g == listing.slot_duration
                   cands == Candidates(s, listing.date, g)
               IN  \A k \in 1 .. Len(cands) :
                     (\E i \in 1 .. Len(listing.slots) :
                         listing.slots[i] = HHMM(cands)[k])
                     <=> (is_slot_available(ledger, listing.master_id,
                                            cands[k], g) = "True")

\* C27: a successful booking request adds exactly one booking, with the
\* requested master, the requested start and the duration of the requested
\* service, and leaves every booking that was there unchanged.  No request
\* ever commits (TryBlockNeverEntered), so no step bears on it.
C27_ExactlyOneRowAdded ==
    [][\A c \in Calls :
          (booking[c] = 0 /\ booking'[c] # 0)
             => \E b \in ledger' :
                  /\ ledger' = ledger \cup {b}
                  /\ b \notin ledger
                  /\ b.id = booking'[c]
                  /\ b.master_id = req[c].master_id
                  /\ b.booking_date = req[c].booking_date
                  /\ b.duration_minutes = ReqDuration(c)]_vars

\* The bookings of rows with booking_id set to CANCELLED.
CancelledIn(rows, booking_id) ==
    { IF b.id = booking_id THEN [b EXCEPT !.status = "CANCELLED"] ELSE b :
        b \in rows }

NoOverlappingActive(rows) ==
    \A b1, b2 \in rows :
        ( /\ b1.id # b2.id
          /\ b1.master_id = b2.master_id
          /\ Active(b1)
          /\ Active(b2) )
        => ~ Overlaps(b1.booking_date, BookingEnd(b1),
                      b2.booking_date, BookingEnd(b2))

\* C28: cancel_booking never enlarges the set of active bookings.  A step of
\* it answered 200 is for a booking of the table and leaves that booking
\* CANCELLED, whatever it was, and every other booking as it was, so a
\* second cancellation changes nothing; a step answered 404 is for an id
\* that is not in the table and changes nothing; no step of it adds an
\* active booking or makes two active bookings of a master overlap.
C28_CancelOnlyCancels ==
    [][(pc' = pc /\ listing' = listing)
          => LET id == cancelled'.booking_id
             IN  /\ cancelled'.code = 200
                    => /\ \E b \in ledger : b.id = id
                       /\ ledger' = CancelledIn(ledger, id)
                       /\ CancelledIn(ledger', id) = ledger'
                 /\ cancelled'.code = 404
                    => /\ ~ \E b \in ledger : b.id = id
                       /\ ledger' = ledger
                 /\ cancelled'.code \notin {200, 404} => ledger' = ledger
                 /\ { b \in ledger' : Active(b) }
                      \subseteq { b \in ledger : Active(b) }
                 /\ NoOverlappingActive(ledger)
                      => NoOverlappingActive(ledger')]_vars

\* Booking 1 has been cancelled, and the latest answer is the 404 for an
\* unknown id.
C28_Witness ==
    /\ \E b \in ledger : b.id = 1 /\ b.status = "CANCELLED"
    /\ \E b \in ExistingBookings : b.id = 1 /\ b.status = "CONFIRMED"
    /\ cancelled.code = 404
    /\ cancelled.booking_id = 99

\* C29: rate limiting: for one client IP and one minute, the middleware
\* forwards at most RATE_LIMIT_PER_MINUTE requests to the application, in
\* every interleaving of requests whose counter read and counter update are
\* separate steps; a request beyond the limit is answered 429.
C29_ForwardedWithinLimit ==
    LET forwarded == { r \in GatewayRequests : rl[r].pc = "forwarded" }
        answered  == { r \in GatewayRequests :
                         rl[r].pc \in {"forwarded", "429"} }
    IN  /\ Cardinality(forwarded) <= RATE_LIMIT_PER_MINUTE
        /\ (answered = GatewayRequests
              /\ NumGatewayRequests > RATE_LIMIT_PER_MINUTE)
             => \E r \in GatewayRequests : rl[r].pc = "429"

====
